---- MODULE Spec2Model ----
(***************************************************************************)
(* A model of the step/hook registry of src/lib/registry.ts (class         *)
(* Registry): the step table, the two hook tables and the parameter-type   *)
(* catalog, the registration operations that fill them and the execution   *)
(* operations that read them.                                              *)
(*                                                                         *)
(* JavaScript values are records tagged by a `type` field.  A text (a step *)
(* line, a step pattern, a tag expression) is a sequence of tokens, so     *)
(* that matching, typeof, truthiness and String.includes are computed      *)
(* rather than assumed.                                                    *)
(***************************************************************************)
EXTENDS Integers, Sequences, FiniteSets, TLC

VARIABLES
  parameterTypeRegistry,  \* Registry.parameterTypeRegistry: set of ParameterType
  stepDefinitions,        \* Registry.stepDefinitions: sequence of IStepDefinition
  beforeHooks,            \* Registry.beforeHooks: sequence of IHook
  afterHooks,             \* Registry.afterHooks: sequence of IHook
  op,                     \* the last call made on the registry, with its arguments
  thrown,                 \* what the last call threw (NoError when it returned)
  calls,                  \* implementations invoked by the last call, in order
  transforms,             \* parameter-type transforms invoked by the last call
  pending                 \* positions in `calls` of the implementations whose
                          \* asynchronous work was unfinished when the call returned

vars == <<parameterTypeRegistry, stepDefinitions, beforeHooks, afterHooks,
          op, thrown, calls, transforms, pending>>

tables == <<parameterTypeRegistry, stepDefinitions, beforeHooks, afterHooks>>

-----------------------------------------------------------------------------
(* Bounds of the model.                                                    *)

\* Registrations (step definitions plus hooks) kept in one registry.
MaxReg == 2

-----------------------------------------------------------------------------
(* JavaScript values.                                                      *)

Undefined == [type |-> "undefined"]
Null == [type |-> "null"]
Fn(id) == [type |-> "function", id |-> id]
Num(n) == [type |-> "number", num |-> n]
Str(toks) == [type |-> "string", value |-> toks]
RegExpOf(toks) == [type |-> "regexp", source |-> toks]
Options(hasTags, tags) == [type |-> "object", hasTags |-> hasTags, tags |-> tags]
DataTable == [type |-> "datatable", raw |-> <<<<"foo">>>>]

\* The typeof operator.
TypeOf(v) ==
  CASE v.type = "undefined" -> "undefined"
    [] v.type = "function" -> "function"
    [] v.type = "number" -> "number"
    [] v.type = "string" -> "string"
    [] OTHER -> "object"

\* ToBoolean, as applied by if (v) and by v ? a : b.
Truthy(v) ==
  CASE v.type = "undefined" -> FALSE
    [] v.type = "null" -> FALSE
    [] v.type = "number" -> v.num # 0
    [] v.type = "string" -> Len(v.value) > 0
    [] OTHER -> TRUE

\* Errors.  Every failure of the registry itself is a plain Error that
\* differs only in its message; TypeError is the engine's own.
NoError == [name |-> "none"]
ErrorOf(message) == [name |-> "Error", message |-> message]
TypeErrorOf(message) == [name |-> "TypeError", message |-> message]

-----------------------------------------------------------------------------
(* Tag expressions (@cucumber/tag-expressions), as used by the hooks.      *)
(* A tag expression is a sequence of tokens; the fragment modelled is a    *)
(* single tag and its negation.  A dangling operator is a syntax error.    *)

noopNode == [kind |-> "noop"]

TagSyntaxError == ErrorOf([head |-> "Tag expression syntax error"])

\* parse(tags): [thrown, node].
parse(tags) ==
  CASE Len(tags) = 1 /\ tags[1] # "not" ->
         [thrown |-> NoError, node |-> [kind |-> "literal", tag |-> tags[1]]]
    [] Len(tags) = 2 /\ tags[1] = "not" /\ tags[2] # "not" ->
         [thrown |-> NoError, node |-> [kind |-> "not", tag |-> tags[2]]]
    [] OTHER -> [thrown |-> TagSyntaxError, node |-> noopNode]

\* node.evaluate(tags), tags being the caller's array of tag names.
evaluate(node, tags) ==
  CASE node.kind = "noop" -> TRUE
    [] node.kind = "literal" -> \E i \in 1..Len(tags) : tags[i] = node.tag
    [] node.kind = "not" -> ~(\E i \in 1..Len(tags) : tags[i] = node.tag)

-----------------------------------------------------------------------------
(* parseHookArguments.                                                     *)

UnexpectedHookArgument == ErrorOf([head |-> "Unexpected argument for Before hook"])

\* optionsOrFn.tags: a property read, which fails on null.
TagsOf(optionsOrFn) ==
  IF optionsOrFn.type = "object" /\ optionsOrFn.hasTags
  THEN Str(optionsOrFn.tags)
  ELSE Undefined

\* parseHookArguments dropping the tags of the options.
parseHookArgumentsUntagged(optionsOrFn, maybeFn) ==
  LET none == [node |-> noopNode, implementation |-> Undefined] IN
  IF TypeOf(optionsOrFn) = "function" THEN
    IF Truthy(maybeFn)
    THEN [thrown |-> UnexpectedHookArgument, hook |-> none]
    ELSE [thrown |-> NoError,
          hook |-> [node |-> noopNode, implementation |-> optionsOrFn]]
  ELSE IF TypeOf(optionsOrFn) = "object" /\ TypeOf(maybeFn) = "function"
          /\ optionsOrFn.type # "null"
  THEN [thrown |-> NoError, hook |-> [node |-> noopNode, implementation |-> maybeFn]]
  ELSE [thrown |-> UnexpectedHookArgument, hook |-> none]

\* [thrown, hook]: hook is meaningful only when thrown = NoError.
parseHookArguments(optionsOrFn, maybeFn) ==
  LET none == [node |-> noopNode, implementation |-> Undefined] IN
  IF TypeOf(optionsOrFn) = "function" THEN
    IF Truthy(maybeFn)
    THEN [thrown |-> UnexpectedHookArgument, hook |-> none]
    ELSE [thrown |-> NoError,
          hook |-> [node |-> noopNode, implementation |-> optionsOrFn]]
  ELSE IF TypeOf(optionsOrFn) = "object" THEN
    IF TypeOf(maybeFn) # "function"
    THEN [thrown |-> UnexpectedHookArgument, hook |-> none]
    ELSE IF optionsOrFn.type = "null"
    THEN [thrown |-> TypeErrorOf([head |-> "Cannot read properties of null"]),
          hook |-> none]
    ELSE IF Truthy(TagsOf(optionsOrFn))
    THEN LET p == parse(TagsOf(optionsOrFn).value) IN
         [thrown |-> p.thrown,
          hook |-> [node |-> p.node, implementation |-> maybeFn]]
    ELSE [thrown |-> NoError,
          hook |-> [node |-> noopNode, implementation |-> maybeFn]]
  ELSE [thrown |-> UnexpectedHookArgument, hook |-> none]

-----------------------------------------------------------------------------
(* getDefinitionLineAndFile.  A stack is [has, frames]; a frame is         *)
(* [file, lineNumber]; a file is its sequence of path segments.  A missing *)
(* file is the empty path and a missing line number is 0: the code tests   *)
(* both by truthiness only.                                                *)

\* filepath.includes("@badeball/cypress-cucumber-preprocessor")
isFileNameInpreprocessor(filepath) ==
  \E i \in 1..(Len(filepath) - 1) :
    filepath[i] = "@badeball" /\ filepath[i + 1] = "cypress-cucumber-preprocessor"

getDefinitionLineAndFile(stack) ==
  LET frames == stack.frames
      found == {i \in 1..Len(frames) :
                  Len(frames[i].file) > 0 /\ ~isFileNameInpreprocessor(frames[i].file)}
      first == CHOOSE i \in found : \A j \in found : i <= j
  IN IF stack.has /\ found # {}
     THEN [line |-> frames[first].lineNumber, file |-> frames[first].file]
     ELSE [line |-> 0, file |-> <<"unknown">>]

-----------------------------------------------------------------------------
(* Parameter types and expressions (@cucumber/cucumber-expressions).       *)
(* A step line is a sequence of words.  A templated pattern is a sequence  *)
(* of [lit] and [param] tokens, a regular expression one of [lit] and      *)
(* [group] tokens; a placeholder or a group captures one word.             *)

Lit(w) == [lit |-> w]
Param(name) == [param |-> name]
Group(re) == [group |-> re]
IsLit(tok) == "lit" \in DOMAIN tok

\* The words the regular expression `re` matches.
Digits == {"5", "7"}
RegexpMatches(re, word) ==
  CASE re = "\\d+" -> word \in Digits
    [] re = "[^\\s]+" -> TRUE
    [] re = "\\w+" -> TRUE
    [] OTHER -> FALSE

\* Number.parseInt on a word of digits.
ParseInt(word) == CASE word = "5" -> 5 [] word = "7" -> 7 [] OTHER -> 0

ParameterType(name, regexp, transformer, useForSnippets, preferForRegexpMatch) ==
  [name |-> name, regexp |-> regexp, transformer |-> transformer,
   useForSnippets |-> useForSnippets, preferForRegexpMatch |-> preferForRegexpMatch]

\* new ParameterTypeRegistry(): the built-in types the model uses.
BuiltinParameterTypes ==
  { ParameterType("int", "\\d+", "parseInt", TRUE, TRUE),
    ParameterType("word", "[^\\s]+", "identity", FALSE, FALSE) }

\* The type a regular expression's group gets when the catalog has none.
AnonymousParameterType(re) == ParameterType("", re, "identity", FALSE, FALSE)

\* parameterType.transform(thisObj, [raw])
Transform(parameterType, raw) ==
  CASE parameterType.transformer = "parseInt" -> Num(ParseInt(raw))
    [] parameterType.transformer = "shout" -> Str(<<raw, "!">>)
    [] OTHER -> Str(<<raw>>)

lookupByTypeName(registry, name) == {pt \in registry : pt.name = name}
lookupByRegexp(registry, re) ==
  LET found == {pt \in registry : pt.regexp = re} IN
  IF found = {} THEN AnonymousParameterType(re) ELSE CHOOSE pt \in found : TRUE

\* new CucumberExpression(description, registry): every placeholder is
\* resolved against the catalog now; an unknown name is an error.
CucumberExpression(source, registry) ==
  LET unknown == {i \in 1..Len(source) :
                    ~IsLit(source[i]) /\ lookupByTypeName(registry, source[i].param) = {}}
  IN IF unknown # {}
     THEN [thrown |-> ErrorOf([head |-> "Undefined parameter type"]),
           expression |-> [class |-> "none"]]
     ELSE [thrown |-> NoError,
           expression |->
             [class |-> "CucumberExpression", source |-> source,
              parameterTypes |->
                [i \in 1..Len(source) |->
                   IF IsLit(source[i]) THEN AnonymousParameterType("")
                   ELSE CHOOSE pt \in lookupByTypeName(registry, source[i].param) : TRUE]]]

\* new RegularExpression(regexp, registry): keeps the registry itself.
RegularExpression(regexp) == [class |-> "RegularExpression", regexp |-> regexp]

\* The parameter type of token i of an expression: a templated pattern has
\* it from its construction, a regular expression looks it up as it matches.
\* A regular expression that takes no parameter type for its groups.
TypeAtUntyped(expression, i, registry) ==
  IF expression.class = "CucumberExpression"
  THEN expression.parameterTypes[i]
  ELSE AnonymousParameterType(expression.regexp[i].group)

TypeAt(expression, i, registry) ==
  IF expression.class = "CucumberExpression"
  THEN expression.parameterTypes[i]
  ELSE lookupByRegexp(registry, expression.regexp[i].group)

TokensOf(expression) ==
  IF expression.class = "CucumberExpression" THEN expression.source ELSE expression.regexp

\* expression.match(text): [matched, args], args the captures in pattern
\* order, each [raw, parameterType].
RECURSIVE Captures(_, _, _, _)
Captures(expression, text, registry, i) ==
  IF i > Len(TokensOf(expression)) THEN <<>>
  ELSE (IF IsLit(TokensOf(expression)[i]) THEN <<>>
        ELSE <<[raw |-> text[i], parameterType |-> TypeAt(expression, i, registry)]>>)
       \o Captures(expression, text, registry, i + 1)

match(expression, text, registry) ==
  LET toks == TokensOf(expression)
      fits == /\ Len(toks) = Len(text)
              /\ \A i \in 1..Len(toks) :
                   IF IsLit(toks[i]) THEN toks[i].lit = text[i]
                   ELSE RegexpMatches(
                          IF expression.class = "CucumberExpression"
                          THEN expression.parameterTypes[i].regexp
                          ELSE toks[i].group, text[i])
  IN IF fits
     THEN [matched |-> TRUE, args |-> Captures(expression, text, registry, 1)]
     ELSE [matched |-> FALSE, args |-> <<>>]

-----------------------------------------------------------------------------
(* The inputs the operations are called with.                              *)

\* What the functions registered as implementations do when they are
\* called: return, throw, return with asynchronous work still to do,
\* register a hook of their own kind (Before(f1) in a before hook,
\* After(f1) in an after hook) and return, or empty the array of tags the
\* caller passed (tags.length = 0) and return.
Behaviours == {"returns", "throws", "suspends", "registers", "retags"}
AllReturn == [f1 |-> "returns", f2 |-> "returns"]

\* Step patterns: "a step", "{word} has {int}", /^(\w+) has (\d+)$/ and
\* "a {color}", whose placeholder is no built-in type.
AStep == Str(<<Lit("a"), Lit("step")>>)
WordHasInt == Str(<<Param("word"), Lit("has"), Param("int")>>)
WordHasDigits == RegExpOf(<<Group("\\w+"), Lit("has"), Group("\\d+")>>)
AColor == Str(<<Lit("a"), Param("color")>>)
Descriptions == {AStep, WordHasInt, WordHasDigits, AColor, Num(42)}

\* Steps of a feature file run in the world of their scenario (w1 or w2):
\* a line, its trailing argument, which is none, a doc string (the empty
\* one too) or a data table, and what the implementations do.
Lines == { <<"a", "step">>, <<"bob", "has", "5">>, <<"bob", "has", "many">> }
DocString == Str(<<"a", "foo", "doc", "string">>)
FeatureSteps ==
  { [world |-> "w1", text |-> <<"a", "step">>, argument |-> Undefined,
     does |-> AllReturn],
    [world |-> "w2", text |-> <<"a", "step">>, argument |-> DocString,
     does |-> AllReturn],
    [world |-> "w1", text |-> <<"a", "step">>, argument |-> Str(<<>>),
     does |-> AllReturn],
    [world |-> "w2", text |-> <<"bob", "has", "5">>, argument |-> Undefined,
     does |-> AllReturn],
    [world |-> "w1", text |-> <<"bob", "has", "5">>, argument |-> DataTable,
     does |-> AllReturn],
    [world |-> "w2", text |-> <<"bob", "has", "many">>, argument |-> Undefined,
     does |-> AllReturn],
    [world |-> "w2", text |-> <<"a", "step">>, argument |-> Undefined,
     does |-> [f1 |-> "throws", f2 |-> "suspends"]],
    [world |-> "w1", text |-> <<"bob", "has", "5">>, argument |-> Undefined,
     does |-> [f1 |-> "throws", f2 |-> "suspends"]] }

\* Call sites of a registration: the function registered and the call
\* stack there, which is the registry's own frame followed by the
\* author's, the registry's own frame alone, or missing.
OwnFrame ==
  [file |-> <<"node_modules", "@badeball", "cypress-cucumber-preprocessor",
              "lib", "registry.js">>, lineNumber |-> 155]
AuthorFrame ==
  [file |-> <<"cypress", "support", "step_definitions", "steps.js">>, lineNumber |-> 3]
CallSites ==
  { [implementation |-> Fn("f1"),
     stack |-> [has |-> TRUE, frames |-> <<OwnFrame, AuthorFrame>>]],
    [implementation |-> Fn("f2"), stack |-> [has |-> TRUE, frames |-> <<OwnFrame>>]],
    [implementation |-> Fn("f2"), stack |-> [has |-> FALSE, frames |-> <<>>]] }

\* Parameter-type definitions: a new type "color" over \w+ and a second
\* definition of the built-in name "int".
ParameterTypeDefinitions ==
  { [name |-> "color", regexp |-> "\\w+", transformer |-> "shout",
     useForSnippets |-> Undefined, preferForRegexpMatch |-> Undefined],
    [name |-> "int", regexp |-> "\\d+", transformer |-> "parseInt",
     useForSnippets |-> [type |-> "boolean", bool |-> FALSE],
     preferForRegexpMatch |-> [type |-> "boolean", bool |-> TRUE]] }

\* Hook arguments.
HookFirstArguments ==
  { Fn("f1"), Fn("f2"), Options(FALSE, <<>>), Options(TRUE, <<"@x">>),
    Options(TRUE, <<"not", "@x">>), Options(TRUE, <<"not">>), Null, Num(1) }
HookSecondArguments == { Undefined, Fn("f1"), Num(0) }

\* Scenarios: the world of a scenario, its tags and what the hooks do in
\* it.
Scenarios ==
  { [world |-> "w1", tags |-> <<>>, does |-> AllReturn],
    [world |-> "w2", tags |-> <<"@x">>, does |-> AllReturn],
    [world |-> "w1", tags |-> <<"@y", "@x">>, does |-> AllReturn],
    [world |-> "w1", tags |-> <<"@x">>, does |-> [f1 |-> "throws", f2 |-> "returns"]],
    [world |-> "w2", tags |-> <<>>, does |-> [f1 |-> "suspends", f2 |-> "returns"]],
    [world |-> "w1", tags |-> <<"@x", "@y">>,
     does |-> [f1 |-> "retags", f2 |-> "registers"]] }

-----------------------------------------------------------------------------
(* The registry.                                                           *)

\* The names the registration of a step is exposed under.
StepMethods == {"Given", "When", "Then"}

Registered == Len(stepDefinitions) + Len(beforeHooks) + Len(afterHooks)

Init ==
  /\ parameterTypeRegistry = BuiltinParameterTypes
  /\ stepDefinitions = <<>>
  /\ beforeHooks = <<>>
  /\ afterHooks = <<>>
  /\ op = [name |-> "constructor"]
  /\ thrown = NoError
  /\ calls = <<>>
  /\ transforms = <<>>
  /\ pending = {}

UnexpectedStepArgument == ErrorOf([head |-> "Unexpected argument for step definition"])

\* defineStep ignoring a pattern that is neither a string nor a RegExp.
defineStepLenient(defs, registry, description, implementation, stack) ==
  LET at == getDefinitionLineAndFile(stack) IN
  IF TypeOf(description) = "string" THEN
    LET compiled == CucumberExpression(description.value, registry) IN
    IF compiled.thrown # NoError
    THEN [thrown |-> compiled.thrown, stepDefinitions |-> defs]
    ELSE [thrown |-> NoError,
          stepDefinitions |->
            Append(defs, [line |-> at.line, file |-> at.file,
                          expression |-> compiled.expression,
                          implementation |-> implementation])]
  ELSE IF description.type = "regexp" THEN
    [thrown |-> NoError,
     stepDefinitions |->
       Append(defs, [line |-> at.line, file |-> at.file,
                     expression |-> RegularExpression(description.source),
                     implementation |-> implementation])]
  ELSE [thrown |-> NoError, stepDefinitions |-> defs]

\* defineStep: [thrown, stepDefinitions], the table as the call leaves it.
defineStep(defs, registry, description, implementation, stack) ==
  LET at == getDefinitionLineAndFile(stack) IN
  IF TypeOf(description) = "string" THEN
    LET compiled == CucumberExpression(description.value, registry) IN
    IF compiled.thrown # NoError
    THEN [thrown |-> compiled.thrown, stepDefinitions |-> defs]
    ELSE [thrown |-> NoError,
          stepDefinitions |->
            Append(defs, [line |-> at.line, file |-> at.file,
                          expression |-> compiled.expression,
                          implementation |-> implementation])]
  ELSE IF description.type = "regexp" THEN
    [thrown |-> NoError,
     stepDefinitions |->
       Append(defs, [line |-> at.line, file |-> at.file,
                     expression |-> RegularExpression(description.source),
                     implementation |-> implementation])]
  ELSE [thrown |-> UnexpectedStepArgument, stepDefinitions |-> defs]

\* methods.Given, methods.When and methods.Then: defineStep bound to the
\* registry.
Given(defs, registry, description, implementation, stack) ==
  defineStep(defs, registry, description, implementation, stack)

When(defs, registry, description, implementation, stack) ==
  defineStep(defs, registry, description, implementation, stack)

\* Then bound to a table of its own: the registration is checked and the
\* step table of the registry is left as it was.
ThenOfOwnTable(defs, registry, description, implementation, stack) ==
  [thrown |-> defineStep(<<>>, registry, description, implementation, stack).thrown,
   stepDefinitions |-> defs]

Then(defs, registry, description, implementation, stack) ==
  defineStep(defs, registry, description, implementation, stack)

\* methods[method](description, implementation)
methods(method, defs, registry, description, implementation, stack) ==
  CASE method = "Given" -> Given(defs, registry, description, implementation, stack)
    [] method = "When" -> When(defs, registry, description, implementation, stack)
    [] method = "Then" -> Then(defs, registry, description, implementation, stack)

\* Given / When / Then
DefineStep ==
  /\ Registered < MaxReg
  /\ \E method \in StepMethods, description \in Descriptions, site \in CallSites :
     \E r \in {methods(method, stepDefinitions, parameterTypeRegistry,
                       description, site.implementation, site.stack)} :
       /\ stepDefinitions' = r.stepDefinitions
       /\ thrown' = r.thrown
       /\ op' = [name |-> "defineStep", method |-> method,
                 description |-> description, implementation |-> site.implementation]
       /\ calls' = <<>>
       /\ pending' = {}
       /\ transforms' = <<>>
       /\ UNCHANGED <<parameterTypeRegistry, beforeHooks, afterHooks>>

\* defineParameterType handing the transformer over in the place of the
\* type: the parameter type is left with the default transformer.
defineParameterTypeUntransformed(registry, definition) ==
  IF lookupByTypeName(registry, definition.name) # {}
  THEN [thrown |-> ErrorOf([head |-> "There is already a parameter type with name",
                            typeName |-> definition.name]),
        registry |-> registry]
  ELSE [thrown |-> NoError,
        registry |-> registry \cup {ParameterType(definition.name, definition.regexp,
                                                  "identity", TRUE, FALSE)}]

\* defineParameterType: [thrown, registry].  The two flags default when
\* they are not booleans; the catalog refuses a name it already holds.
defineParameterType(registry, definition) ==
  LET useForSnippets ==
        IF definition.useForSnippets.type # "boolean" THEN TRUE
        ELSE definition.useForSnippets.bool
      preferForRegexpMatch ==
        IF definition.preferForRegexpMatch.type # "boolean" THEN FALSE
        ELSE definition.preferForRegexpMatch.bool
      parameterType ==
        ParameterType(definition.name, definition.regexp, definition.transformer,
                      useForSnippets, preferForRegexpMatch)
  IN IF lookupByTypeName(registry, definition.name) # {}
     THEN [thrown |-> ErrorOf([head |-> "There is already a parameter type with name",
                               typeName |-> definition.name]),
           registry |-> registry]
     ELSE [thrown |-> NoError, registry |-> registry \cup {parameterType}]

DefineParameterType ==
  \E definition \in ParameterTypeDefinitions :
  \E r \in {defineParameterType(parameterTypeRegistry, definition)} :
    /\ parameterTypeRegistry' = r.registry
    /\ thrown' = r.thrown
    /\ op' = [name |-> "defineParameterType", definition |-> definition]
    /\ calls' = <<>>
    /\ pending' = {}
    /\ transforms' = <<>>
    /\ UNCHANGED <<stepDefinitions, beforeHooks, afterHooks>>

\* defineBefore / defineAfter: [thrown, hooks], the table as the call
\* leaves it.
defineHook(hooks, optionsOrFn, maybeFn) ==
  LET parsed == parseHookArguments(optionsOrFn, maybeFn) IN
  IF parsed.thrown # NoError
  THEN [thrown |-> parsed.thrown, hooks |-> hooks]
  ELSE [thrown |-> NoError, hooks |-> Append(hooks, parsed.hook)]

DefineBefore ==
  /\ Registered < MaxReg
  /\ \E optionsOrFn \in HookFirstArguments, maybeFn \in HookSecondArguments :
     \E r \in {defineHook(beforeHooks, optionsOrFn, maybeFn)} :
       /\ beforeHooks' = r.hooks
       /\ thrown' = r.thrown
       /\ op' = [name |-> "defineBefore", optionsOrFn |-> optionsOrFn, maybeFn |-> maybeFn]
       /\ calls' = <<>>
       /\ pending' = {}
       /\ transforms' = <<>>
       /\ UNCHANGED <<parameterTypeRegistry, stepDefinitions, afterHooks>>

DefineAfter ==
  /\ Registered < MaxReg
  /\ \E optionsOrFn \in HookFirstArguments, maybeFn \in HookSecondArguments :
     \E r \in {defineHook(afterHooks, optionsOrFn, maybeFn)} :
       /\ afterHooks' = r.hooks
       /\ thrown' = r.thrown
       /\ op' = [name |-> "defineAfter", optionsOrFn |-> optionsOrFn, maybeFn |-> maybeFn]
       /\ calls' = <<>>
       /\ pending' = {}
       /\ transforms' = <<>>
       /\ UNCHANGED <<parameterTypeRegistry, stepDefinitions, beforeHooks>>

-----------------------------------------------------------------------------
(* Resolution and execution.                                               *)

\* The step definitions matching `text`, in table order.
matchingStepDefinitions(defs, registry, text) ==
  LET Matches(stepDefinition) == match(stepDefinition.expression, text, registry).matched
  IN SelectSeq(defs, Matches)

\* One line of the ambiguity message: the pattern, the file and the line.
AmbiguityLine(stepDefinition) ==
  [pattern |-> IF stepDefinition.expression.class = "RegularExpression"
               THEN RegExpOf(stepDefinition.expression.regexp)
               ELSE Str(stepDefinition.expression.source),
   file |-> stepDefinition.file, line |-> stepDefinition.line]

\* The missing-step message without the line.
MissingStepAnonymous(text) ==
  ErrorOf([head |-> "Step implementation missing for: ", text |-> <<>>])

MissingStep(text) ==
  ErrorOf([head |-> "Step implementation missing for: ", text |-> text])
\* The ambiguity message giving every line the place of the first
\* definition.
MultipleStepsOfOnePlace(text, matching) ==
  ErrorOf([head |-> "Multiple matching step definitions for: ", text |-> text,
           list |-> [i \in 1..Len(matching) |->
                       [pattern |-> AmbiguityLine(matching[i]).pattern,
                        file |-> matching[1].file, line |-> matching[1].line]]])

MultipleSteps(text, matching) ==
  ErrorOf([head |-> "Multiple matching step definitions for: ", text |-> text,
           list |-> [i \in 1..Len(matching) |-> AmbiguityLine(matching[i])]])

\* resolveStepDefintion settling an ambiguity by registration order.
resolveStepDefintionFirstWins(defs, registry, text) ==
  LET matching == matchingStepDefinitions(defs, registry, text) IN
  IF Len(matching) = 0 THEN [thrown |-> MissingStep(text), matching |-> matching]
  ELSE [thrown |-> NoError, matching |-> <<matching[1]>>]

\* resolveStepDefintion: [thrown, matching]; the step definition returned
\* is matching[1] when nothing is thrown.
resolveStepDefintion(defs, registry, text) ==
  LET matching == matchingStepDefinitions(defs, registry, text) IN
  IF Len(matching) = 0 THEN [thrown |-> MissingStep(text), matching |-> matching]
  ELSE IF Len(matching) > 1
  THEN [thrown |-> MultipleSteps(text, matching), matching |-> matching]
  ELSE [thrown |-> NoError, matching |-> matching]

\* The positional arguments of the implementation: the transformed
\* captures, then the trailing argument if (argument).
stepArguments(values, argument) ==
  IF Truthy(argument) THEN Append(values, argument) ELSE values

\* runStepDefininition calling the implementation unbound.
runStepDefininitionUnbound(defs, registry, world, text, argument) ==
  LET resolved == resolveStepDefintion(defs, registry, text) IN
  IF resolved.thrown # NoError
  THEN [thrown |-> resolved.thrown, calls |-> <<>>, transforms |-> <<>>]
  ELSE
    LET stepDefinition == resolved.matching[1]
        matched == match(stepDefinition.expression, text, registry).args
        values == [i \in 1..Len(matched) |->
                     Transform(matched[i].parameterType, matched[i].raw)]
    IN [thrown |-> NoError,
        calls |-> <<[fn |-> stepDefinition.implementation, this |-> "undefined",
                     args |-> stepArguments(values, argument)]>>,
        transforms |-> [i \in 1..Len(matched) |->
                          [parameterType |-> matched[i].parameterType.name,
                           raw |-> matched[i].raw, this |-> world]]]

\* runStepDefininition passing the raw captures (match.group.value).
runStepDefininitionRaw(defs, registry, world, text, argument) ==
  LET resolved == resolveStepDefintion(defs, registry, text) IN
  IF resolved.thrown # NoError
  THEN [thrown |-> resolved.thrown, calls |-> <<>>, transforms |-> <<>>]
  ELSE
    LET stepDefinition == resolved.matching[1]
        matched == match(stepDefinition.expression, text, registry).args
    IN [thrown |-> NoError,
        calls |-> <<[fn |-> stepDefinition.implementation, this |-> world,
                     args |-> stepArguments([i \in 1..Len(matched) |->
                                               Str(<<matched[i].raw>>)], argument)]>>,
        transforms |-> <<>>]

\* runStepDefininition taking the values of every matching definition
\* while it scans the table, before it knows whether the line resolves.
runStepDefininitionEager(defs, registry, world, text, argument) ==
  LET resolved == resolveStepDefintion(defs, registry, text)
      scanned(k) == match(resolved.matching[k].expression, text, registry).args
      transformed(k) ==
        [i \in 1..Len(scanned(k)) |->
           [parameterType |-> scanned(k)[i].parameterType.name,
            raw |-> scanned(k)[i].raw, this |-> world]]
      all[k \in 0..Len(resolved.matching)] ==
        IF k = 0 THEN <<>> ELSE all[k - 1] \o transformed(k)
  IN IF resolved.thrown # NoError
     THEN [thrown |-> resolved.thrown, calls |-> <<>>,
           transforms |-> all[Len(resolved.matching)]]
     ELSE
       LET stepDefinition == resolved.matching[1]
           values == [i \in 1..Len(scanned(1)) |->
                        Transform(scanned(1)[i].parameterType, scanned(1)[i].raw)]
       IN [thrown |-> NoError,
           calls |-> <<[fn |-> stepDefinition.implementation, this |-> world,
                        args |-> stepArguments(values, argument)]>>,
           transforms |-> transformed(1)]

\* runStepDefininition up to the call of the implementation:
\* [thrown, calls, transforms].
runStepDefininition(defs, registry, world, text, argument) ==
  LET resolved == resolveStepDefintion(defs, registry, text) IN
  IF resolved.thrown # NoError
  THEN [thrown |-> resolved.thrown, calls |-> <<>>, transforms |-> <<>>]
  ELSE
    LET stepDefinition == resolved.matching[1]
        matched == match(stepDefinition.expression, text, registry).args
        values == [i \in 1..Len(matched) |->
                     Transform(matched[i].parameterType, matched[i].raw)]
    IN [thrown |-> NoError,
        calls |-> <<[fn |-> stepDefinition.implementation, this |-> world,
                     args |-> stepArguments(values, argument)]>>,
        transforms |-> [i \in 1..Len(matched) |->
                          [parameterType |-> matched[i].parameterType.name,
                           raw |-> matched[i].raw, this |-> world]]]

\* What an implementation throws.
ImplementationError(fn) ==
  ErrorOf([head |-> "thrown by the implementation", fn |-> fn.id])

\* The call of an implementation inside try / catch, the failure dropped.
invokeCaught(invocation, does) ==
  [thrown |-> NoError,
   suspended |-> does[invocation.fn.id] = "suspends",
   registers |-> does[invocation.fn.id] = "registers",
   retags |-> does[invocation.fn.id] = "retags"]

\* implementation.apply(world, args) / implementation.call(world): what the
\* function called does there.  Nothing is done with what it returns.
invoke(invocation, does) ==
  LET what == does[invocation.fn.id] IN
  [thrown |-> IF what = "throws" THEN ImplementationError(invocation.fn) ELSE NoError,
   suspended |-> what = "suspends",
   registers |-> what = "registers",
   retags |-> what = "retags"]

\* The last statement of runStepDefininition, the call of the
\* implementation: [thrown, pending].
apply(resolved, does) ==
  IF resolved.thrown # NoError THEN [thrown |-> resolved.thrown, pending |-> {}]
  ELSE LET done == invoke(resolved.calls[1], does) IN
       [thrown |-> done.thrown, pending |-> IF done.suspended THEN {1} ELSE {}]

\* Step(world, text, argument)
RunStepDefininition ==
  \E step \in FeatureSteps :
  \E r \in {runStepDefininition(stepDefinitions, parameterTypeRegistry,
                                step.world, step.text, step.argument)} :
  \E done \in {apply(r, step.does)} :
    /\ thrown' = done.thrown
    /\ calls' = r.calls
    /\ transforms' = r.transforms
    /\ pending' = done.pending
    /\ op' = [name |-> "runStepDefininition", world |-> step.world, text |-> step.text,
              argument |-> step.argument, does |-> step.does]
    /\ UNCHANGED tables

\* The hooks whose node evaluates to true for `tags`, in table order.
matchingHooks(hooks, tags) ==
  LET Evaluates(hook) == evaluate(hook.node, tags) IN SelectSeq(hooks, Evaluates)

\* runHooks invoking the hooks last registered first.
runHooksReversed(hooks, world, tags) ==
  LET selected == matchingHooks(hooks, tags) IN
  [i \in 1..Len(selected) |->
     [fn |-> selected[Len(selected) + 1 - i].implementation, this |-> world,
      args |-> <<>>]]

\* hooks.filter(...) and the call forEach makes for each hook that is
\* left: the calls to make, in order.
runHooks(hooks, world, tags) ==
  LET selected == matchingHooks(hooks, tags) IN
  [i \in 1..Len(selected) |->
     [fn |-> selected[i].implementation, this |-> world, args |-> <<>>]]

\* A loop that calls every hook, keeps the first failure and throws it
\* when all have been called.
RECURSIVE forEachSettled(_, _, _, _)
forEachSettled(selected, does, hooks, i) ==
  IF i > Len(selected)
  THEN [thrown |-> NoError, calls |-> <<>>, pending |-> {}, hooks |-> hooks]
  ELSE
    LET done == invoke(selected[i], does)
        rest == forEachSettled(selected, does,
                               IF done.registers
                               THEN defineHook(hooks, Fn("f1"), Undefined).hooks
                               ELSE hooks,
                               i + 1)
    IN [thrown |-> IF done.thrown # NoError THEN done.thrown ELSE rest.thrown,
        calls |-> <<selected[i]>> \o rest.calls,
        pending |-> (IF done.suspended THEN {i} ELSE {}) \cup rest.pending,
        hooks |-> rest.hooks]

\* selected.forEach(hook => hook.implementation.call(world)) from the i-th
\* call on, `hooks` being the table the hooks were selected from:
\* [thrown, calls, pending, hooks].  A call that throws ends the loop; a
\* hook that registers a hook appends it to the table.
RECURSIVE forEach(_, _, _, _)
forEach(selected, does, hooks, i) ==
  IF i > Len(selected)
  THEN [thrown |-> NoError, calls |-> <<>>, pending |-> {}, hooks |-> hooks]
  ELSE
    LET done == invoke(selected[i], does) IN
    IF done.thrown # NoError
    THEN [thrown |-> done.thrown, calls |-> <<selected[i]>>, pending |-> {},
          hooks |-> hooks]
    ELSE
      LET rest == forEach(selected, does,
                          IF done.registers
                          THEN defineHook(hooks, Fn("f1"), Undefined).hooks
                          ELSE hooks,
                          i + 1)
      IN [thrown |-> rest.thrown, calls |-> <<selected[i]>> \o rest.calls,
          pending |-> (IF done.suspended THEN {i} ELSE {}) \cup rest.pending,
          hooks |-> rest.hooks]

\* for (const hook of hooks) if (hook.node.evaluate(tags)) ...: the table
\* and the tags read again at every turn of the loop, from the i-th hook
\* on.
RECURSIVE forOf(_, _, _, _, _)
forOf(hooks, world, tags, does, i) ==
  IF i > Len(hooks)
  THEN [thrown |-> NoError, calls |-> <<>>, pending |-> {}, hooks |-> hooks]
  ELSE IF ~evaluate(hooks[i].node, tags) THEN forOf(hooks, world, tags, does, i + 1)
  ELSE
    LET invocation == [fn |-> hooks[i].implementation, this |-> world, args |-> <<>>]
        done == invoke(invocation, does)
    IN IF done.thrown # NoError
       THEN [thrown |-> done.thrown, calls |-> <<invocation>>, pending |-> {},
             hooks |-> hooks]
       ELSE
         LET rest == forOf(IF done.registers
                           THEN defineHook(hooks, Fn("f1"), Undefined).hooks
                           ELSE hooks,
                           world, IF done.retags THEN <<>> ELSE tags, does, i + 1)
         IN [thrown |-> rest.thrown, calls |-> <<invocation>> \o rest.calls,
             pending |-> {}, hooks |-> rest.hooks]

\* runBeforeHooks / runAfterHooks selecting and calling in one loop.
invokeHooksInOneLoop(hooks, world, tags, does) == forOf(hooks, world, tags, does, 1)

\* The body of runBeforeHooks / runAfterHooks on the table `hooks`.
invokeHooks(hooks, world, tags, does) ==
  forEach(runHooks(hooks, world, tags), does, hooks, 1)

\* runBeforeHooks reading one table of hooks, before and after together.
RunBeforeHooksOfBoth ==
  \E scenario \in Scenarios :
  \E r \in {invokeHooks(beforeHooks \o afterHooks, scenario.world, scenario.tags,
                         scenario.does)} :
    /\ Registered + (Len(r.hooks) - Len(beforeHooks \o afterHooks)) <= MaxReg
    /\ beforeHooks' = beforeHooks \o SubSeq(r.hooks, Registered - Len(stepDefinitions) + 1,
                                            Len(r.hooks))
    /\ calls' = r.calls
    /\ thrown' = r.thrown
    /\ pending' = r.pending
    /\ transforms' = <<>>
    /\ op' = [name |-> "runBeforeHooks", world |-> scenario.world,
              tags |-> scenario.tags, does |-> scenario.does]
    /\ UNCHANGED <<parameterTypeRegistry, stepDefinitions, afterHooks>>

\* A hook that registers a hook is run only while the registry has room
\* for the registration.
RunBeforeHooks ==
  \E scenario \in Scenarios :
  \E r \in {invokeHooks(beforeHooks, scenario.world, scenario.tags, scenario.does)} :
    /\ Registered + (Len(r.hooks) - Len(beforeHooks)) <= MaxReg
    /\ beforeHooks' = r.hooks
    /\ calls' = r.calls
    /\ thrown' = r.thrown
    /\ pending' = r.pending
    /\ transforms' = <<>>
    /\ op' = [name |-> "runBeforeHooks", world |-> scenario.world,
              tags |-> scenario.tags, does |-> scenario.does]
    /\ UNCHANGED <<parameterTypeRegistry, stepDefinitions, afterHooks>>

\* runAfterHooks taking the hooks off the table as it runs them.
RunAfterHooksConsuming ==
  \E scenario \in Scenarios :
  \E r \in {invokeHooks(afterHooks, scenario.world, scenario.tags, scenario.does)} :
    /\ Registered + (Len(r.hooks) - Len(afterHooks)) <= MaxReg
    /\ afterHooks' = SubSeq(r.hooks, Len(r.calls) + 1, Len(r.hooks))
    /\ calls' = r.calls
    /\ thrown' = r.thrown
    /\ pending' = r.pending
    /\ transforms' = <<>>
    /\ op' = [name |-> "runAfterHooks", world |-> scenario.world,
              tags |-> scenario.tags, does |-> scenario.does]
    /\ UNCHANGED <<parameterTypeRegistry, stepDefinitions, beforeHooks>>

RunAfterHooks ==
  \E scenario \in Scenarios :
  \E r \in {invokeHooks(afterHooks, scenario.world, scenario.tags, scenario.does)} :
    /\ Registered + (Len(r.hooks) - Len(afterHooks)) <= MaxReg
    /\ afterHooks' = r.hooks
    /\ calls' = r.calls
    /\ thrown' = r.thrown
    /\ pending' = r.pending
    /\ transforms' = <<>>
    /\ op' = [name |-> "runAfterHooks", world |-> scenario.world,
              tags |-> scenario.tags, does |-> scenario.does]
    /\ UNCHANGED <<parameterTypeRegistry, stepDefinitions, beforeHooks>>

Next ==
  \/ DefineStep
  \/ DefineParameterType
  \/ DefineBefore
  \/ DefineAfter
  \/ RunStepDefininition
  \/ RunBeforeHooks
  \/ RunAfterHooks

Spec == Init /\ [][Next]_vars

-----------------------------------------------------------------------------
(* Properties.                                                             *)

\* The kinds of error the registry raises, told by their message.
IsError(e, head) == e.name = "Error" /\ e.message.head = head
IsUndefinedStepError(e) == IsError(e, "Step implementation missing for: ")
IsAmbiguousStepError(e) == IsError(e, "Multiple matching step definitions for: ")
IsInvalidHookArguments(e) == IsError(e, "Unexpected argument for Before hook")
IsInvalidStepPattern(e) == IsError(e, "Unexpected argument for step definition")

\* The positions in the step table of the definitions matching `text`.
MatchingAt(text) ==
  {i \in 1..Len(stepDefinitions) :
     match(stepDefinitions[i].expression, text, parameterTypeRegistry).matched}

RanStep == op.name = "runStepDefininition"

\* C1: a line matched by two or more registered step definitions makes
\* resolution, and so run, fail with the ambiguous-step error for that
\* line: none of the matching definitions is selected and no
\* implementation is invoked.
C1_AmbiguousStepFails ==
  /\ \A text \in Lines :
       Cardinality(MatchingAt(text)) >= 2 =>
         IsAmbiguousStepError(
           resolveStepDefintion(stepDefinitions, parameterTypeRegistry, text).thrown)
  /\ (RanStep /\ Cardinality(MatchingAt(op.text)) >= 2) =>
       /\ IsAmbiguousStepError(thrown)
       /\ thrown.message.text = op.text
       /\ calls = <<>>

\* A run of "a step" with "a step" registered twice, by f1 and then by f2.
C1_Witness ==
  /\ RanStep
  /\ op.text = <<"a", "step">>
  /\ Len(stepDefinitions) = 2
  /\ MatchingAt(op.text) = {1, 2}
  /\ stepDefinitions[1].implementation # stepDefinitions[2].implementation
  /\ IsAmbiguousStepError(thrown)

\* C2: a line that no registered step definition matches (the empty table
\* included) makes resolution, and so run, fail with the undefined-step
\* error naming that line, and no implementation is invoked.
C2_UndefinedStepFails ==
  /\ \A text \in Lines :
       MatchingAt(text) = {} =>
         LET e == resolveStepDefintion(stepDefinitions, parameterTypeRegistry, text).thrown
         IN IsUndefinedStepError(e) /\ e.message.text = text
  /\ (RanStep /\ MatchingAt(op.text) = {}) =>
       /\ IsUndefinedStepError(thrown)
       /\ thrown.message.text = op.text
       /\ calls = <<>>

\* A run of "bob has many" against a table of two definitions, neither of
\* which matches it.
C2_Witness ==
  /\ RanStep
  /\ op.text = <<"bob", "has", "many">>
  /\ Len(stepDefinitions) = 2
  /\ MatchingAt(op.text) = {}
  /\ IsUndefinedStepError(thrown)

\* C3: when exactly one registered step definition matches the line, run
\* resolves to it and makes exactly one call: of that definition's
\* implementation, with the caller's world as the receiver; nothing else,
\* step implementation or hook, is invoked.
C3_UniqueMatchIsInvokedOnce ==
  (RanStep /\ Cardinality(MatchingAt(op.text)) = 1) =>
    LET only == CHOOSE i \in MatchingAt(op.text) : TRUE IN
    /\ ~IsUndefinedStepError(thrown)
    /\ ~IsAmbiguousStepError(thrown)
    /\ resolveStepDefintion(stepDefinitions, parameterTypeRegistry, op.text).matching
         = <<stepDefinitions[only]>>
    /\ Len(calls) = 1
    /\ calls[1].fn = stepDefinitions[only].implementation
    /\ calls[1].this = op.world

\* A run in world w2 that resolves to the only step definition, registered
\* by f2, while an unconditional hook registered by f1 is in the before
\* table: the one call made is of f2, bound to w2.
C3_Witness ==
  /\ RanStep
  /\ op.world = "w2"
  /\ Len(stepDefinitions) = 1
  /\ MatchingAt(op.text) = {1}
  /\ stepDefinitions[1].implementation = Fn("f2")
  /\ beforeHooks = <<[node |-> noopNode, implementation |-> Fn("f1")]>>
  /\ Len(calls) = 1
  /\ calls[1].fn = Fn("f2")
  /\ calls[1].this = "w2"

\* The positions of the placeholders of a templated pattern, left to right.
RECURSIVE PlaceholdersFrom(_, _)
PlaceholdersFrom(source, i) ==
  IF i > Len(source) THEN <<>>
  ELSE (IF IsLit(source[i]) THEN <<>> ELSE <<i>>) \o PlaceholdersFrom(source, i + 1)

\* What the placeholder `name` makes of the word `raw`.
ValueOf(name, raw) ==
  CASE name = "int" -> Num(ParseInt(raw))
    [] name = "word" -> Str(<<raw>>)
    [] name = "color" -> Str(<<raw, "!">>)

\* C4: a line matching exactly one step definition, a templated pattern
\* with N placeholders, run without a trailing argument, gives the
\* implementation exactly N arguments, the i-th being the word at the i-th
\* placeholder transformed by that placeholder's parameter type.
C4_PlaceholderArguments ==
  (/\ RanStep
   /\ op.argument = Undefined
   /\ Cardinality(MatchingAt(op.text)) = 1) =>
    LET expression == stepDefinitions[CHOOSE i \in MatchingAt(op.text) : TRUE].expression
    IN expression.class = "CucumberExpression" =>
         LET at == PlaceholdersFrom(expression.source, 1) IN
         /\ Len(calls) = 1
         /\ Len(calls[1].args) = Len(at)
         /\ \A i \in 1..Len(at) :
              calls[1].args[i] = ValueOf(expression.source[at[i]].param, op.text[at[i]])

\* "bob has 5" run against "{word} has {int}" alone: the arguments are the
\* string "bob" and the number 5.
C4_Witness ==
  /\ RanStep
  /\ op.text = <<"bob", "has", "5">>
  /\ op.argument = Undefined
  /\ Len(stepDefinitions) = 1
  /\ stepDefinitions[1].expression.class = "CucumberExpression"
  /\ stepDefinitions[1].expression.source = WordHasInt.value
  /\ Len(calls) = 1
  /\ calls[1].args = <<Str(<<"bob">>), Num(5)>>

\* The values the pattern of a step definition yields: its placeholders
\* or its groups.
CaptureCount(expression) ==
  Cardinality({i \in 1..Len(TokensOf(expression)) : ~IsLit(TokensOf(expression)[i])})

\* C5: a trailing argument supplied to run (a data table or a doc string,
\* the empty doc string too) is the last of N+1 arguments of the
\* implementation, after the N values of the pattern; with no trailing
\* argument the implementation gets exactly those N.
C5_TrailingArgumentIsLast ==
  (RanStep /\ Cardinality(MatchingAt(op.text)) = 1) =>
    LET n == CaptureCount(stepDefinitions[CHOOSE i \in MatchingAt(op.text) : TRUE].expression)
    IN /\ Len(calls) = 1
       /\ IF op.argument # Undefined
          THEN Len(calls[1].args) = n + 1 /\ calls[1].args[n + 1] = op.argument
          ELSE Len(calls[1].args) = n

RanHooks == op.name \in {"runBeforeHooks", "runAfterHooks"}
HooksRun == IF op.name = "runBeforeHooks" THEN beforeHooks ELSE afterHooks

\* How many members of the set S of positions are at or before i.
Rank(S, i) == Cardinality({j \in S : j <= i})

\* The table runBeforeHooks or runAfterHooks reads.
HooksOf(name) == IF name = "runBeforeHooks" THEN beforeHooks ELSE afterHooks

\* C6: runBeforeHooks (runAfterHooks) invokes the before-hooks
\* (after-hooks) registered when it is called whose predicate holds for
\* the tag set, in the order of their registration: a call that returns
\* has invoked each of them exactly once, and one that a hook ended by
\* throwing has invoked the first of them, in that order.
C6_HooksRunInRegistrationOrder ==
  [][op'.name \in {"runBeforeHooks", "runAfterHooks"} =>
       LET table == HooksOf(op'.name)
           selected == {i \in 1..Len(table) : evaluate(table[i].node, op'.tags)}
       IN /\ Len(calls') <= Cardinality(selected)
          /\ thrown' = NoError => Len(calls') = Cardinality(selected)
          /\ \A i \in selected :
               Rank(selected, i) <= Len(calls') =>
                 calls'[Rank(selected, i)] =
                   [fn |-> table[i].implementation, this |-> op'.world,
                    args |-> <<>>]]_vars

\* f2 registered unconditionally and then f1 under "@x": for the tags
\* ["@x"] the calls are f2 and then f1.
C6_Witness ==
  /\ op.name = "runBeforeHooks"
  /\ op.tags = <<"@x">>
  /\ beforeHooks = <<[node |-> noopNode, implementation |-> Fn("f2")],
                     [node |-> [kind |-> "literal", tag |-> "@x"],
                      implementation |-> Fn("f1")]>>
  /\ calls = <<[fn |-> Fn("f2"), this |-> op.world, args |-> <<>>],
               [fn |-> Fn("f1"), this |-> op.world, args |-> <<>>]>>

DefinedHook == op.name \in {"defineBefore", "defineAfter"}
HooksDefined == IF op.name = "defineBefore" THEN beforeHooks ELSE afterHooks
HasTag(tags, tag) == \E i \in 1..Len(tags) : tags[i] = tag

\* Whether a hook whose node is `node` is to run for `tags`.
RunsFor(node, tags) ==
  CASE node.kind = "noop" -> TRUE
    [] node.kind = "literal" -> HasTag(tags, node.tag)
    [] node.kind = "not" -> ~HasTag(tags, node.tag)

\* C7: a hook registered without tags (a callable alone, or options whose
\* tags are omitted) is invoked for every tag set, one registered with the
\* tags "@x" exactly for the tag sets holding "@x", and one registered
\* with "not @x" exactly for those not holding it; a run that returns has
\* made one call for each hook of the table that is to run for the tags.
C7_TagsGateHooks ==
  [][/\ (DefinedHook' /\ thrown' = NoError) =>
       LET hook == HooksDefined'[Len(HooksDefined')]
           first == op'.optionsOrFn
           runs(scenario) ==
             runHooks(<<hook>>, scenario.world, scenario.tags)
               = <<[fn |-> hook.implementation, this |-> scenario.world, args |-> <<>>]>>
       IN /\ (first.type = "function" \/ first = Options(FALSE, <<>>)) =>
               \A scenario \in Scenarios : runs(scenario)
          /\ first = Options(TRUE, <<"@x">>) =>
               \A scenario \in Scenarios : runs(scenario) <=> HasTag(scenario.tags, "@x")
          /\ first = Options(TRUE, <<"not", "@x">>) =>
               \A scenario \in Scenarios : runs(scenario) <=> ~HasTag(scenario.tags, "@x")
     /\ (RanHooks' /\ thrown' = NoError) =>
          Len(calls') = Cardinality({i \in 1..Len(HooksOf(op'.name)) :
                                      RunsFor(HooksOf(op'.name)[i].node, op'.tags)})]_vars

\* Hooks registered under "@x" and under "not @x", run for the tags
\* ["@y", "@x"]: one call is made.
C7_Witness ==
  /\ op.name = "runAfterHooks"
  /\ op.tags = <<"@y", "@x">>
  /\ Len(afterHooks) = 2
  /\ afterHooks[1].node = [kind |-> "literal", tag |-> "@x"]
  /\ afterHooks[2].node = [kind |-> "not", tag |-> "@x"]
  /\ Len(calls) = 1

\* C8: the tables are independent.  runBeforeHooks calls implementations
\* of the before table only and runAfterHooks of the after table only;
\* defineBefore changes no table but the before table, defineAfter none
\* but the after table.
C8_TablesAreIndependent ==
  [][/\ op'.name = "runBeforeHooks" =>
          /\ Len(calls') <= Len(beforeHooks)
          /\ \A k \in 1..Len(calls') :
               \E i \in 1..Len(beforeHooks) : beforeHooks[i].implementation = calls'[k].fn
     /\ op'.name = "runAfterHooks" =>
          /\ Len(calls') <= Len(afterHooks)
          /\ \A k \in 1..Len(calls') :
               \E i \in 1..Len(afterHooks) : afterHooks[i].implementation = calls'[k].fn
     /\ op'.name = "defineBefore" =>
          UNCHANGED <<afterHooks, stepDefinitions, parameterTypeRegistry>>
     /\ op'.name = "defineAfter" =>
          UNCHANGED <<beforeHooks, stepDefinitions, parameterTypeRegistry>>]_vars

\* runBeforeHooks with f1 in the before table and f2, unconditional, in
\* the after table: f1 alone is called.
C8_Witness ==
  /\ op.name = "runBeforeHooks"
  /\ beforeHooks = <<[node |-> noopNode, implementation |-> Fn("f1")]>>
  /\ afterHooks = <<[node |-> noopNode, implementation |-> Fn("f2")]>>
  /\ calls = <<[fn |-> Fn("f1"), this |-> op.world, args |-> <<>>]>>

\* The two argument shapes of a hook registration: (callable) and
\* (options object, callable).
IsHookShape(optionsOrFn, maybeFn) ==
  \/ optionsOrFn.type = "function" /\ maybeFn = Undefined
  \/ optionsOrFn.type = "object" /\ maybeFn.type = "function"

\* C9: every argument shape of defineBefore / defineAfter other than
\* (callable) and (options object, callable) fails with the
\* invalid-hook-arguments error, and a failed registration leaves both
\* hook tables as they were.
C9_OtherHookShapesAreRefused ==
  [][(op'.name \in {"defineBefore", "defineAfter"}) =>
       /\ ~IsHookShape(op'.optionsOrFn, op'.maybeFn) => IsInvalidHookArguments(thrown')
       /\ thrown' # NoError => UNCHANGED <<beforeHooks, afterHooks>>]_vars

\* Whether the pattern is one the expression compiler accepts: a regular
\* expression, or a string all of whose placeholders name a known type.
Compiles(description) ==
  \/ description.type = "regexp"
  \/ /\ description.type = "string"
     /\ \A i \in 1..Len(description.value) :
          IsLit(description.value[i]) \/
            \E pt \in parameterTypeRegistry : pt.name = description.value[i].param

\* C10: defineStep, under each of its names, fails with the
\* invalid-step-pattern error when the pattern is neither a string nor a
\* regular expression; a failed defineStep leaves the step table as it
\* was; a string or regular expression that compiles appends exactly one
\* step definition, of that pattern and implementation, at the end.
C10_DefineStepAppendsOrFails ==
  [][op'.name = "defineStep" =>
       LET description == op'.description
           n == Len(stepDefinitions)
       IN /\ description.type \notin {"string", "regexp"} => IsInvalidStepPattern(thrown')
          /\ thrown' # NoError => stepDefinitions' = stepDefinitions
          /\ Compiles(description) =>
               /\ thrown' = NoError
               /\ Len(stepDefinitions') = n + 1
               /\ SubSeq(stepDefinitions', 1, n) = stepDefinitions
               /\ stepDefinitions'[n + 1].implementation = op'.implementation
               /\ AmbiguityLine(stepDefinitions'[n + 1]).pattern = description]_vars

\* Then(42, f) on a table of one step definition: refused, the table kept.
C10_Witness ==
  /\ op.name = "defineStep"
  /\ op.method = "Then"
  /\ op.description = Num(42)
  /\ IsInvalidStepPattern(thrown)
  /\ Len(stepDefinitions) = 1

\* The calls of the last operation whose implementation throws.
Invoked == op.name \in {"runStepDefininition", "runBeforeHooks", "runAfterHooks"}
Throwing == {k \in 1..Len(calls) : op.does[calls[k].fn.id] = "throws"}

\* C11: what a step implementation or a hook implementation throws reaches
\* the caller of run / runBeforeHooks / runAfterHooks as it was thrown:
\* the call does not return normally, the value is the implementation's
\* own, and the implementation that failed was invoked once, as the last
\* call made.
C11_ImplementationFailuresPropagate ==
  Invoked =>
    /\ \A k \in Throwing :
         /\ thrown = ImplementationError(calls[k].fn)
         /\ k = Len(calls)
    /\ (Throwing = {} /\ calls # <<>>) => thrown = NoError

\* runBeforeHooks with f2 and then f1 in the table, f1 throwing: both were
\* called and the caller gets what f1 threw.
C11_Witness ==
  /\ op.name = "runBeforeHooks"
  /\ op.does.f1 = "throws"
  /\ Len(calls) = 2
  /\ calls[1].fn = Fn("f2")
  /\ calls[2].fn = Fn("f1")
  /\ thrown = ImplementationError(Fn("f1"))

\* C12: run, runBeforeHooks and runAfterHooks see each implementation
\* through, its asynchronous work included, before the next one is
\* invoked: within one call no implementation is started while an earlier
\* one, invoked for the same world, still has asynchronous work to do.
C12_OneImplementationAtATime ==
  Invoked => \A k \in pending : k = Len(calls)

\* The step table a defineStep that has just been made found: the table
\* without its last entry when the call returned, the table when it threw.
TableBefore ==
  IF thrown = NoError
  THEN SubSeq(stepDefinitions, 1, Len(stepDefinitions) - 1)
  ELSE stepDefinitions

\* C13: Given, When and Then do the same and fill one step table.  A
\* registration under one name leaves the table, and throws, what the
\* same registration under either other name would; and a definition
\* registered under any name collides with the older definitions,
\* whatever name they were registered under, that match the same line.
C13_StepNamesAreInterchangeable ==
  op.name = "defineStep" =>
    /\ \E site \in CallSites :
         /\ site.implementation = op.implementation
         /\ \A method \in StepMethods :
              \E r \in {methods(method, TableBefore, parameterTypeRegistry,
                                op.description, site.implementation, site.stack)} :
                r.thrown = thrown /\ r.stepDefinitions = stepDefinitions
    /\ thrown = NoError =>
         \A text \in Lines :
           (Len(stepDefinitions) \in MatchingAt(text)
              /\ MatchingAt(text) # {Len(stepDefinitions)}) =>
             IsAmbiguousStepError(
               resolveStepDefintion(stepDefinitions, parameterTypeRegistry, text).thrown)

\* Then("a step", f) after another registration of "a step": the table
\* holds both and "a step" is ambiguous.
C13_Witness ==
  /\ op.name = "defineStep"
  /\ op.method = "Then"
  /\ op.description = AStep
  /\ thrown = NoError
  /\ Len(stepDefinitions) = 2
  /\ MatchingAt(<<"a", "step">>) = {1, 2}
  /\ IsAmbiguousStepError(
       resolveStepDefintion(stepDefinitions, parameterTypeRegistry, <<"a", "step">>).thrown)

DefinedParameterType == op.name = "defineParameterType"
IsDuplicateParameterType(e) == IsError(e, "There is already a parameter type with name")

\* The only step definition, when it is a templated pattern matching the
\* line just run.
RanTemplated ==
  /\ RanStep
  /\ Len(stepDefinitions) = 1
  /\ MatchingAt(op.text) = {1}
  /\ stepDefinitions[1].expression.class = "CucumberExpression"

\* C14 as claimed: registering a parameter type named "int" with parseInt
\* succeeds; a templated pattern using {int} registered next gives the
\* implementation the number 5 for the word "5"; and a templated pattern
\* using {n}, n registered by defineParameterType with the transform t,
\* gives t of the word captured.
C14_RegisteredTypeRoundTrip ==
  /\ (DefinedParameterType /\ op.definition.name = "int") => thrown = NoError
  /\ (RanTemplated /\ stepDefinitions[1].expression.source = WordHasInt.value
       /\ op.text = <<"bob", "has", "5">>) => calls[1].args[2] = Num(5)
  /\ (RanTemplated /\ stepDefinitions[1].expression.source = AColor.value) =>
       calls[1].args[1] = Str(<<op.text[2], "!">>)

\* C14 amended: "int" is a type the catalog is born with, so registering
\* it again is refused with the duplicate-name error and the catalog is
\* kept; registering a name the catalog does not hold ("color") succeeds
\* and puts the type, with its transformer, into the catalog.  A
\* templated pattern using {int} gives the number 5 for the word "5",
\* and one using {color}, which compiles only once "color" is registered,
\* gives the registered transform of the word captured.
C14_NewTypeRoundTrip ==
  /\ (DefinedParameterType /\ op.definition.name = "int") =>
       /\ IsDuplicateParameterType(thrown)
       /\ lookupByTypeName(parameterTypeRegistry, "int")
            = {ParameterType("int", "\\d+", "parseInt", TRUE, TRUE)}
  /\ (DefinedParameterType /\ thrown = NoError) =>
       \E pt \in lookupByTypeName(parameterTypeRegistry, op.definition.name) :
         pt.transformer = op.definition.transformer /\ pt.regexp = op.definition.regexp
  /\ (RanTemplated /\ stepDefinitions[1].expression.source = WordHasInt.value
       /\ op.text = <<"bob", "has", "5">>) => calls[1].args[2] = Num(5)
  /\ (RanTemplated /\ stepDefinitions[1].expression.source = AColor.value) =>
       /\ \E pt \in parameterTypeRegistry : pt.name = "color" /\ pt.transformer = "shout"
       /\ calls[1].args[1] = Str(<<op.text[2], "!">>)

\* "a step" run against "a {color}" alone, which was registered after the
\* type "color": the one argument is the transform of "step".
C14_Witness ==
  /\ RanTemplated
  /\ op.text = <<"a", "step">>
  /\ stepDefinitions[1].expression.source = AColor.value
  /\ op.argument = Undefined
  /\ calls[1].args = <<Str(<<"step", "!">>)>>

\* Whether the sequence `after` is `before` with `n` entries added at its
\* end.
Appends(before, after, n) ==
  /\ Len(after) = Len(before) + n
  /\ SubSeq(after, 1, Len(before)) = before

\* How many of the calls made registered a hook.
Registrations(does, made) ==
  Cardinality({k \in 1..Len(made) : does[made[k].fn.id] = "registers"})

ValuesOf(matched) ==
  [k \in 1..Len(matched.args) |->
     Transform(matched.args[k].parameterType, matched.args[k].raw)]

\* The positions of the placeholders or groups of a pattern.
CapturesAt(expression) == PlaceholdersFrom(TokensOf(expression), 1)

PatternOf(stepDefinition) ==
  IF stepDefinition.expression.class = "RegularExpression"
  THEN RegExpOf(stepDefinition.expression.regexp)
  ELSE Str(stepDefinition.expression.source)

\* Whether `list` names the step definitions at the positions S, each
\* once, in the order of the table, with its pattern, file and line.
Enumerates(list, S) ==
  /\ Len(list) = Cardinality(S)
  /\ \A i \in S :
       list[Rank(S, i)] = [pattern |-> PatternOf(stepDefinitions[i]),
                           file |-> stepDefinitions[i].file,
                           line |-> stepDefinitions[i].line]

C18_HookFailureEndsThePhase ==
  [][op'.name \in {"runBeforeHooks", "runAfterHooks"} =>
       LET toRun == matchingHooks(HooksOf(op'.name), op'.tags)
           failing == {i \in 1..Len(toRun) :
                         op'.does[toRun[i].implementation.id] = "throws"}
       IN failing # {} =>
            LET first == CHOOSE i \in failing : \A j \in failing : i <= j IN
            /\ Len(calls') = first
            /\ \A k \in 1..first :
                 calls'[k] = [fn |-> toRun[k].implementation, this |-> op'.world,
                             args |-> <<>>]
            /\ thrown' = ImplementationError(toRun[first].implementation)]_vars

\* runBeforeHooks for the tags ["@x"] with f1, which throws, and then f2
\* in the table: f1 alone was called.
C18_Witness ==
  /\ op.name = "runBeforeHooks"
  /\ op.tags = <<"@x">>
  /\ op.does.f1 = "throws"
  /\ beforeHooks = <<[node |-> noopNode, implementation |-> Fn("f1")],
                     [node |-> noopNode, implementation |-> Fn("f2")]>>
  /\ calls = <<[fn |-> Fn("f1"), this |-> "w1", args |-> <<>>]>>
  /\ thrown = ImplementationError(Fn("f1"))

\* Whether one of the calls made did `what`.
Did(does, made, what) == \E k \in 1..Len(made) : does[made[k].fn.id] = what

\* C19: the hooks of a phase are chosen before the first of them is
\* called.  When a hook called by runBeforeHooks / runAfterHooks
\* registers a hook or empties the tags, the calls of that run are still
\* those of the hooks that were in the table, and were to run for the
\* tags, when the run was called; the hook registered is in the table
\* afterwards, at its end, and is called by the runs that follow.
C19_HooksAreChosenBeforeTheFirstCall ==
  [][(/\ op'.name \in {"runBeforeHooks", "runAfterHooks"}
      /\ thrown' = NoError
      /\ (Did(op'.does, calls', "registers") \/ Did(op'.does, calls', "retags"))) =>
       LET before == HooksOf(op'.name)
           after == IF op'.name = "runBeforeHooks" THEN beforeHooks' ELSE afterHooks'
           n == Registrations(op'.does, calls')
       IN /\ calls' = runHooks(before, op'.world, op'.tags)
          /\ Appends(before, after, n)
          /\ \A k \in 1..n :
               after[Len(before) + k] = [node |-> noopNode, implementation |-> Fn("f1")]
          /\ Len(runHooks(after, op'.world, op'.tags)) = Len(calls') + n]_vars

\* runBeforeHooks with f2 alone in the table, f2 registering f1: f2 alone
\* was called and the table holds f2 and then f1.
C19_Witness ==
  /\ op.name = "runBeforeHooks"
  /\ op.does.f2 = "registers"
  /\ calls = <<[fn |-> Fn("f2"), this |-> "w1", args |-> <<>>]>>
  /\ beforeHooks = <<[node |-> noopNode, implementation |-> Fn("f2")],
                     [node |-> noopNode, implementation |-> Fn("f1")]>>

\* C20: the transforms of the parameter types are applied once the line
\* has resolved, to the captures of the definition it resolved to and no
\* other.  A run whose line one definition matches transforms each
\* capture of that definition once, in order, with the caller's world; a
\* run whose line no definition or several match applies no transform and
\* calls no implementation; and no other operation applies a transform.
C20_TransformsFollowResolution ==
  /\ ~RanStep => transforms = <<>>
  /\ (RanStep /\ Cardinality(MatchingAt(op.text)) # 1) =>
       /\ transforms = <<>>
       /\ calls = <<>>
       /\ thrown # NoError
  /\ (RanStep /\ Cardinality(MatchingAt(op.text)) = 1) =>
       LET expression ==
             stepDefinitions[CHOOSE i \in MatchingAt(op.text) : TRUE].expression
           at == CapturesAt(expression)
       IN /\ Len(transforms) = Len(at)
          /\ \A k \in 1..Len(at) :
               /\ transforms[k].raw = op.text[at[k]]
               /\ transforms[k].this = op.world
               /\ transforms[k].parameterType = TypeAt(expression, at[k],
                                                       parameterTypeRegistry).name

\* "bob has 5" run in w2 against "a step" and "{word} has {int}": the two
\* captures of the second definition are transformed, with w2.
C20_Witness ==
  /\ RanStep
  /\ op.text = <<"bob", "has", "5">>
  /\ Len(stepDefinitions) = 2
  /\ MatchingAt(op.text) = {2}
  /\ transforms = <<[parameterType |-> "word", raw |-> "bob", this |-> "w2"],
                    [parameterType |-> "int", raw |-> "5", this |-> "w2"]>>

====
